---- MODULE Spec2Model ----
(***************************************************************************)
(* Model of home_trader: the TradeLedger, the stop conditions, the         *)
(* decision validator, the trade executor and the TradingAgent.run loop,   *)
(* together with the parts of the oracle parser and of the exchange client *)
(* whose results the loop depends on.                                      *)
(*                                                                         *)
(* Conventions:                                                            *)
(*   - a Python str that the code upper- or lower-cases or splits is a     *)
(*     sequence of one-character strings; a str that is only passed        *)
(*     around is a TLA+ string;                                            *)
(*   - Optional[T] is None == <<>> or Some(v) == <<v>>;                    *)
(*   - USDC amounts, prices and base-asset balances are integers (exact    *)
(*     arithmetic; no NaN, no infinity, no rounding);                      *)
(*   - timestamps and order uuids are left out of journal entries and      *)
(*     trade records;                                                      *)
(*   - an exception that leaves run() puts pc at "crashed".                *)
(***************************************************************************)
EXTENDS Integers, Sequences, FiniteSets, TLC

VARIABLES
  config,        \* AgentConfig (immutable for the session)
  pc,            \* position of run() (or of the unit harness)
  now,           \* time.time() - self._start_time, in ticks
  ledger,        \* self._ledger : TradeLedger
  journal,       \* the journal file: sequence of [heading, content]
  reason,        \* last value returned by _stop_reason
  snapshot,      \* last MarketSnapshot built (Optional)
  decision,      \* last LLMDecision returned by the oracle (Optional)
  product_id,    \* normalized product id of the current cycle (chars)
  validation,    \* record of the last _validate_decision call (Optional)
  execution,     \* record of the last _execute_trade call (Optional)
  trade_result,  \* value returned by the last _execute_trade (Optional)
  raised,        \* the exception that left run() (Optional)
  calls,         \* counters of the calls made: exchange, oracle, sleep
  input          \* the argument of the last direct call of the unit harness (Optional)

vars == <<config, pc, now, ledger, journal, reason, snapshot, decision,
          product_id, validation, execution, trade_result, raised, calls, input>>

-----------------------------------------------------------------------------
(* Bounds of the model *)

\* max_runtime of the sessions explored, in ticks; the polling interval is
\* one tick, so a session has at most MaxRuntime loop iterations
MaxRuntime == 2
\* the oracle's amounts range up to MaxAmount
MaxAmount == 3
\* register_trade calls explored by the unit harness
MaxLedger == 3
MaxAccounts == 3

-----------------------------------------------------------------------------
(* Optional values and strings *)

None == <<>>
Some(v) == <<v>>
IsNone(o) == o = <<>>
Val(o) == o[1]

Min(a, b) == IF a <= b THEN a ELSE b

LowerLetters == <<"a", "b", "c", "d", "e", "f", "g", "h", "i", "j", "k", "l", "m",
                  "n", "o", "p", "q", "r", "s", "t", "u", "v", "w", "x", "y", "z">>
UpperLetters == <<"A", "B", "C", "D", "E", "F", "G", "H", "I", "J", "K", "L", "M",
                  "N", "O", "P", "Q", "R", "S", "T", "U", "V", "W", "X", "Y", "Z">>

Letters == 1..Len(LowerLetters)

\* the upper-case form of each lower-case letter, and the converse
ToUpper == [c \in {LowerLetters[i] : i \in Letters} |->
              UpperLetters[CHOOSE i \in Letters : LowerLetters[i] = c]]
ToLower == [c \in {UpperLetters[i] : i \in Letters} |->
              LowerLetters[CHOOSE i \in Letters : UpperLetters[i] = c]]

\* str.upper(), one character
UpperChar(c) == IF c \in DOMAIN ToUpper THEN ToUpper[c] ELSE c

\* str.lower(), one character
LowerChar(c) == IF c \in DOMAIN ToLower THEN ToLower[c] ELSE c

\* str.upper()
Upper(s) == [i \in 1..Len(s) |-> UpperChar(s[i])]

\* str.lower()
Lower(s) == [i \in 1..Len(s) |-> LowerChar(s[i])]

\* str.endswith(suffix)
EndsWith(s, suffix) ==
  /\ Len(s) >= Len(suffix)
  /\ SubSeq(s, Len(s) - Len(suffix) + 1, Len(s)) = suffix

\* s.split("-")[0]: the part before the first "-", or all of s
SplitFirst(s) ==
  IF \E i \in 1..Len(s) : s[i] = "-"
    THEN LET k == CHOOSE i \in 1..Len(s) : s[i] = "-" /\ \A j \in 1..(i-1) : s[j] # "-"
         IN  SubSeq(s, 1, k - 1)
    ELSE s

\* x in list
InList(x, list) == \E i \in 1..Len(list) : list[i] = x

\* string literals the code uses
S_USDC == <<"U", "S", "D", "C">>
S_DashUSDC == <<"-", "U", "S", "D", "C">>
S_buy == <<"b", "u", "y">>
S_sell == <<"s", "e", "l", "l">>
S_hold == <<"h", "o", "l", "d">>

-----------------------------------------------------------------------------
(* Configuration: config.py *)

\* forbidden_products without the upper-casing
forbidden_products_raw(cfg) == cfg.constraints.forbidden_products

\* AgentConfig.forbidden_products: the configured symbols, upper-cased
forbidden_products(cfg) ==
  [i \in 1..Len(cfg.constraints.forbidden_products) |->
     Upper(cfg.constraints.forbidden_products[i])]

\* The sessions explored: TradingConstraints and polling interval, scaled
\* down (runtime in ticks, USDC in whole units).
Configs ==
  { [ constraints |->
        [ max_runtime |-> MaxRuntime,
          profit_target_usdc |-> p,
          max_transactions |-> m,
          max_purchase_usdc |-> 2,
          forbidden_products |-> << <<"b", "t", "c">> >> ],
      polling_interval_seconds |-> 1 ] : p \in {0, 2}, m \in {0, 2} }

-----------------------------------------------------------------------------
(* TradeLedger: trading_agent.py *)

EmptyLedger == [net_profit_usdc |-> 0, transactions |-> <<>>]

\* dict.get(key, default)
Get(d, key, default) == IF key \in DOMAIN d THEN d[key] ELSE default

\* register_trade adding the traded amount in place of the signed delta
register_trade_unsigned(l, trade) ==
  [ transactions |-> Append(l.transactions, trade),
    net_profit_usdc |-> l.net_profit_usdc + Get(trade, "amount_usdc", 0) ]

\* TradeLedger.register_trade
register_trade(l, trade) ==
  [ transactions |-> Append(l.transactions, trade),
    net_profit_usdc |-> l.net_profit_usdc + Get(trade, "net_delta_usdc", 0) ]

\* TradeLedger.transaction_count
transaction_count(l) == Len(l.transactions)

-----------------------------------------------------------------------------
(* Stop conditions: trading_agent.py *)

\* _stop_reason with the test of the runtime only
_stop_reason_runtime_only(elapsed, l, constraints) ==
  IF elapsed >= constraints.max_runtime THEN Some("Max runtime reached.") ELSE None

\* _stop_reason without the test of the transaction cap
_stop_reason_no_cap(elapsed, l, constraints) ==
  IF elapsed >= constraints.max_runtime
    THEN Some("Max runtime reached.")
  ELSE IF l.net_profit_usdc >= constraints.profit_target_usdc
    THEN Some("Profit target achieved.")
  ELSE None

\* _stop_reason with the profit target tested before the transaction cap
_stop_reason_profit_first(elapsed, l, constraints) ==
  IF elapsed >= constraints.max_runtime
    THEN Some("Max runtime reached.")
  ELSE IF l.net_profit_usdc >= constraints.profit_target_usdc
    THEN Some("Profit target achieved.")
  ELSE IF Len(l.transactions) >= constraints.max_transactions
    THEN Some("Max transaction count reached.")
  ELSE None

\* TradingAgent._stop_reason, with elapsed = time.time() - start_time
_stop_reason(elapsed, l, constraints) ==
  IF elapsed >= constraints.max_runtime
    THEN Some("Max runtime reached.")
  ELSE IF transaction_count(l) >= constraints.max_transactions
    THEN Some("Max transaction count reached.")
  ELSE IF l.net_profit_usdc >= constraints.profit_target_usdc
    THEN Some("Profit target achieved.")
  ELSE None

\* TradingAgent._build_constraints_payload (max_runtime_hours left in ticks)
_build_constraints_payload(cfg, l) ==
  [ max_runtime_hours |-> cfg.constraints.max_runtime,
    profit_target_usdc |-> cfg.constraints.profit_target_usdc,
    max_transactions |-> cfg.constraints.max_transactions,
    max_purchase_usdc |-> cfg.constraints.max_purchase_usdc,
    forbidden_products |-> forbidden_products(cfg),
    remaining_transactions |-> cfg.constraints.max_transactions - transaction_count(l),
    current_profit_usdc |-> l.net_profit_usdc ]

-----------------------------------------------------------------------------
(* Exchange client: coinbase_client.py *)

\* CoinbaseClient.get_accounts on a decoded /accounts payload: a sequence of
\* items [asset: Optional chars, available: Optional number]; items without
\* an asset or without a balance are dropped, the order is kept.
RECURSIVE get_accounts(_)
get_accounts(payload) ==
  IF payload = <<>> THEN <<>>
  ELSE LET item == Head(payload)
           rest == get_accounts(Tail(payload))
       IN  IF /\ ~IsNone(item.asset)
              /\ Val(item.asset) # <<>>
              /\ ~IsNone(item.available)
             THEN << [asset |-> Val(item.asset),
                      available_balance |-> Val(item.available)] >> \o rest
             ELSE rest

\* next((a.available_balance for a in accounts if a.asset.upper() == symbol), 0.0)
RECURSIVE first_balance(_, _)
first_balance(accounts, symbol) ==
  IF accounts = <<>> THEN 0
  ELSE IF Upper(Head(accounts).asset) = symbol
    THEN Head(accounts).available_balance
    ELSE first_balance(Tail(accounts), symbol)

\* CoinbaseClient.get_usdc_balance on the account list
get_usdc_balance(accounts) == first_balance(accounts, S_USDC)

\* _parse_order_result without the test of the success flag
_parse_order_result_lenient(payload) ==
  Some([ order_id |-> Get(payload, "order_id", ""),
         status |-> Get(payload, "order_status", "unknown") ])

\* CoinbaseClient._parse_order_result on a decoded order payload:
\* None when it raises RuntimeError("Order failed"), else Some(OrderResult)
\* (fills are not modelled)
_parse_order_result(payload) ==
  IF ~Get(payload, "success", FALSE)
    THEN None
    ELSE Some([ order_id |-> Get(payload, "order_id", ""),
                status |-> Get(payload, "order_status", "unknown") ])

-----------------------------------------------------------------------------
(* Market snapshot: trading_agent.py *)

\* the code points of the letters and of "-"
CodePoint ==
  [c \in {LowerLetters[i] : i \in Letters} \cup {UpperLetters[i] : i \in Letters} \cup {"-"} |->
     IF c = "-" THEN 45
     ELSE IF c \in DOMAIN ToLower
       THEN 64 + (CHOOSE i \in Letters : UpperLetters[i] = c)
       ELSE 96 + (CHOOSE i \in Letters : LowerLetters[i] = c)]

\* ord(c) of a character of a product id
Ord(c) == CodePoint[c]

\* Python's str <
RECURSIVE StrLess(_, _)
StrLess(a, b) ==
  IF b = <<>> THEN FALSE
  ELSE IF a = <<>> THEN TRUE
  ELSE IF Ord(Head(a)) # Ord(Head(b)) THEN Ord(Head(a)) < Ord(Head(b))
  ELSE StrLess(Tail(a), Tail(b))

\* sorted(set of str)
RECURSIVE Sorted(_)
Sorted(S) ==
  IF S = {} THEN <<>>
  ELSE LET m == CHOOSE x \in S : \A y \in S \ {x} : StrLess(x, y)
       IN  <<m>> \o Sorted(S \ {m})

\* the test without the USDC case
SkippedAsset_forbidden_only(cfg, asset) == InList(Upper(asset), forbidden_products(cfg))

\* the test both loops use to leave an account out
SkippedAsset(cfg, asset) ==
  InList(Upper(asset), forbidden_products(cfg)) \/ Upper(asset) = S_USDC

\* TradingAgent._discover_candidate_products
_discover_candidate_products(cfg, accounts) ==
  Sorted({ Upper(accounts[i].asset) \o S_DashUSDC :
             i \in {j \in 1..Len(accounts) : ~SkippedAsset(cfg, accounts[j].asset)} })

\* the holdings dict of _estimate_positions: a later account overwrites an
\* earlier one of the same asset
RECURSIVE Holdings(_, _, _)
Holdings(cfg, accounts, asset) ==
  IF accounts = <<>> THEN None
  ELSE LET last == accounts[Len(accounts)]
       IN  IF ~SkippedAsset(cfg, last.asset) /\ Upper(last.asset) = asset
             THEN Some(last.available_balance)
             ELSE Holdings(cfg, SubSeq(accounts, 1, Len(accounts) - 1), asset)

\* TradingAgent._estimate_positions
_estimate_positions(cfg, accounts, products) ==
  [ p \in {products[i] : i \in 1..Len(products)} |->
      LET h == Holdings(cfg, accounts, SplitFirst(p))
      IN  IF IsNone(h) THEN 0 ELSE Val(h) ]

\* TradingAgent._build_market_snapshot on the account list get_accounts returned
_build_market_snapshot(cfg, accounts) ==
  LET candidate_products == _discover_candidate_products(cfg, accounts)
  IN  [ usdc_balance |-> first_balance(accounts, S_USDC),
        candidate_products |-> candidate_products,
        open_positions |-> _estimate_positions(cfg, accounts, candidate_products) ]

-----------------------------------------------------------------------------
(* Oracle reply parsing: llm.py *)

\* x or default, for an Optional value whose empty value is falsy
OrElse(o, empty, default) == IF IsNone(o) \/ Val(o) = empty THEN default ELSE Val(o)

\* LLMDecisionMaker._parse_response on a reply. A reply is [json |-> FALSE]
\* (json.loads raises) or [json |-> TRUE, data |-> object]; an object maps
\* some of the keys action, product_id, rationale to None (null) or
\* Some(string) and amount_usdc to None or Some([kind, value]). The result is
\* None when ValueError is raised, else Some(LLMDecision).
_parse_response(reply) ==
  IF ~reply.json THEN None
  ELSE LET data == reply.data
           action == Lower(OrElse(Get(data, "action", None), <<>>, S_hold))
           product == Get(data, "product_id", None)
           amount == Get(data, "amount_usdc", None)
           rationale == OrElse(Get(data, "rationale", None), "", "No rationale provided.")
       IN  IF ~IsNone(amount) /\ Val(amount).kind # "number"
             THEN None
             ELSE Some([ action |-> action,
                         product_id |-> product,
                         amount_usdc |-> IF IsNone(amount) THEN None
                                         ELSE Some(Val(amount).value),
                         rationale |-> rationale ])

-----------------------------------------------------------------------------
(* Journal: journal.py *)

\* what Journal.append_entry appends (the timestamp is left out)
Entry(heading, content) == [heading |-> heading, content |-> content]

\* append_decision that writes nothing for a hold
append_decision_no_hold(j, action, rationale) ==
  IF action = S_hold THEN j
  ELSE Append(j, Entry("Decision",
                       <<"- **Decision**: ">> \o action \o <<"\n- **Rationale**: ", rationale>>))

\* Journal.append_decision
append_decision(j, action, rationale) ==
  Append(j, Entry("Decision",
                  <<"- **Decision**: ">> \o action \o <<"\n- **Rationale**: ", rationale>>))

\* append_transaction that writes nothing
append_transaction_silent(j, trade) == j

\* Journal.append_transaction
append_transaction(j, trade) ==
  Append(j, Entry("Transaction",
                  <<"- **order_id**: ", trade.order_id,
                    "\n- **status**: ", trade.status,
                    "\n- **product_id**: ">> \o trade.product_id \o
                  <<"\n- **action**: ">> \o trade.action \o
                  <<"\n- **amount_usdc**: ", ToString(trade.amount_usdc),
                    "\n- **net_delta_usdc**: ", ToString(trade.net_delta_usdc)>>))

-----------------------------------------------------------------------------
(* Decision validation: trading_agent.py *)

\* the normalization without the test of the ending
NormalizeProductId_always_append(raw) == Upper(raw) \o S_DashUSDC

\* the product id run() passes on: upper-cased, "-USDC" appended if missing
NormalizeProductId(raw) ==
  IF EndsWith(Upper(raw), S_DashUSDC) THEN Upper(raw) ELSE Upper(raw) \o S_DashUSDC

\* the digits of n, left-padded with zeros to width w
RECURSIVE Digits(_, _)
Digits(n, w) == IF w = 0 THEN <<>> ELSE Digits(n \div 10, w - 1) \o <<ToString(n % 10)>>

\* f"{num/den:.8f}" for num >= 0, den > 0
Fmt8(num, den) ==
  LET scaled == (2 * (num % den) * 100000000 + den) \div (2 * den)
  IN  <<ToString(num \div den), ".">> \o Digits(scaled, 8)

\* rule 1: the base asset of the product is forbidden
rule_forbidden(cfg, pid) == InList(SplitFirst(pid), forbidden_products(cfg))

\* rule 2 firing one transaction early
rule_cap_early(l, constraints) == transaction_count(l) + 1 >= constraints.max_transactions

\* rule 2: the transaction cap is reached
rule_cap(l, constraints) == transaction_count(l) >= constraints.max_transactions

\* rule 3: the action is neither buy nor sell
rule_action(d) == d.action \notin {S_buy, S_sell}

\* rule 4: the amount is missing or not positive
rule_size(d) == IsNone(d.amount_usdc) \/ Val(d.amount_usdc) <= 0

\* rule 5 switched off
rule_max_purchase_off(d, constraints) == FALSE

\* rule 5 with >= in place of >
rule_max_purchase_inclusive(d, constraints) ==
  d.action = S_buy /\ Val(d.amount_usdc) >= constraints.max_purchase_usdc

\* rule 5: a buy above the purchase limit
rule_max_purchase(d, constraints) ==
  d.action = S_buy /\ Val(d.amount_usdc) > constraints.max_purchase_usdc

\* rule 6: a buy above the live USDC balance
rule_usdc(d, balance) == Val(d.amount_usdc) > balance

\* rule 7 with the required base amount rounded down to a whole unit
rule_base_floor(d, price, base_balance) == (Val(d.amount_usdc) \div price) > base_balance

\* rule 7: a sell needing more base asset than held:
\* required_base = amount_usdc / price > base_balance, for price > 0
rule_base(d, price, base_balance) == Val(d.amount_usdc) > base_balance * price

\* the local rules with the amount tested before the product and the cap
_local_rejection_size_first(cfg, l, d, pid) ==
  IF rule_action(d)
    THEN Some(<<"Unsupported action: ">> \o d.action)
  ELSE IF rule_size(d)
    THEN Some(<<"Invalid trade size specified.">>)
  ELSE IF rule_forbidden(cfg, pid)
    THEN Some(<<"Product ">> \o pid \o <<" is forbidden.">>)
  ELSE IF rule_cap(l, cfg.constraints)
    THEN Some(<<"Max transaction count reached.">>)
  ELSE IF rule_max_purchase(d, cfg.constraints)
    THEN Some(<<"Buy size ", ToString(Val(d.amount_usdc)),
                " exceeds max purchase limit ",
                ToString(cfg.constraints.max_purchase_usdc)>>)
  ELSE None

\* the rules of _validate_decision that ask the exchange nothing, in the
\* order of the code: the reason of the first that fails, or None
_local_rejection(cfg, l, d, pid) ==
  IF rule_forbidden(cfg, pid)
    THEN Some(<<"Product ">> \o pid \o <<" is forbidden.">>)
  ELSE IF rule_cap(l, cfg.constraints)
    THEN Some(<<"Max transaction count reached.">>)
  ELSE IF rule_action(d)
    THEN Some(<<"Unsupported action: ">> \o d.action)
  ELSE IF rule_size(d)
    THEN Some(<<"Invalid trade size specified.">>)
  ELSE IF rule_max_purchase(d, cfg.constraints)
    THEN Some(<<"Buy size ", ToString(Val(d.amount_usdc)),
                " exceeds max purchase limit ",
                ToString(cfg.constraints.max_purchase_usdc)>>)
  ELSE None

\* TradingAgent._validate_decision. env holds what the exchange would answer:
\* env.accounts is None (the request raises) or Some(payload); env.price is
\* None (the request raises or the ticker has no price) or Some(price).
\* The result names the outcome ("accepted", "rejected", "raised"), the
\* journal entries appended and the exchange requests made, in order.
_validate_decision(cfg, l, d, pid, env) ==
  LET Out(outcome, entries, queries) ==
        [outcome |-> outcome, entries |-> entries, queries |-> queries]
      Rejected(content, queries) ==
        Out("rejected", <<Entry("Decision Rejected", content)>>, queries)
  IN
  IF ~IsNone(_local_rejection(cfg, l, d, pid))
    THEN Rejected(Val(_local_rejection(cfg, l, d, pid)), <<>>)
  ELSE IF d.action = S_buy
    THEN IF IsNone(env.accounts)
           THEN Out("raised", <<>>, <<"get_accounts">>)
         ELSE IF rule_usdc(d, get_usdc_balance(get_accounts(Val(env.accounts))))
           THEN Rejected(<<"Insufficient USDC balance for purchase.">>, <<"get_accounts">>)
         ELSE Out("accepted", <<>>, <<"get_accounts">>)
  ELSE LET base_asset == SplitFirst(pid)
       IN  IF IsNone(env.accounts)
             THEN Out("raised", <<>>, <<"get_accounts">>)
           ELSE IF IsNone(env.price) \/ Val(env.price) = 0
             THEN Out("raised", <<>>, <<"get_accounts", "get_product_price">>)
           ELSE LET base_balance == first_balance(get_accounts(Val(env.accounts)), base_asset)
                    price == Val(env.price)
                IN  IF rule_base(d, price, base_balance)
                      THEN Rejected(<<"Insufficient ">> \o base_asset \o
                                    <<" balance for sale. Need ">> \o
                                    Fmt8(Val(d.amount_usdc), price) \o <<", have ">> \o
                                    Fmt8(base_balance, 1) \o <<".">>,
                                    <<"get_accounts", "get_product_price">>)
                      ELSE Out("accepted", <<>>, <<"get_accounts", "get_product_price">>)

-----------------------------------------------------------------------------
(* Trade execution: trading_agent.py *)

\* TradingAgent._execute_trade. env.price as above; env.order is None (the
\* request raises) or Some(payload). The result is the outcome ("returned",
\* "raised"), the record returned, the exchange requests made and whether an
\* order was accepted by the exchange.
_execute_trade(d, pid, env) ==
  LET Out(outcome, record, queries, accepted) ==
        [outcome |-> outcome, record |-> record, queries |-> queries, accepted |-> accepted]
      Record(result, net_delta) ==
        [ order_id |-> result.order_id,
          status |-> result.status,
          product_id |-> pid,
          action |-> d.action,
          amount_usdc |-> Val(d.amount_usdc),
          net_delta_usdc |-> net_delta ]
      Place(queries, net_delta) ==
        IF IsNone(env.order)
          THEN Out("raised", None, queries, FALSE)
        ELSE IF IsNone(_parse_order_result(Val(env.order)))
          THEN Out("raised", None, queries, FALSE)
        ELSE Out("returned", Some(Record(Val(_parse_order_result(Val(env.order))), net_delta)),
                 queries, TRUE)
  IN
  IF d.action = S_buy
    THEN Place(<<"place_market_buy">>, 0 - Val(d.amount_usdc))
  ELSE IF IsNone(env.price) \/ Val(env.price) = 0
    THEN Out("raised", None, <<"get_product_price">>, FALSE)
  ELSE Place(<<"get_product_price", "place_market_sell">>, Val(d.amount_usdc))

-----------------------------------------------------------------------------
(* What the environment may answer *)

Item(asset, available) == [asset |-> asset, available |-> available]

S_ada == <<"a", "d", "a">>
S_btc == <<"b", "t", "c">>

\* decoded /accounts payloads
AccountPayloads ==
  { <<>>,
    << Item(Some(S_USDC), Some(2)), Item(Some(S_ada), Some(1)) >>,
    << Item(Some(<<"u", "s", "d", "c">>), Some(3)),
       Item(Some(<<"B", "T", "C">>), Some(1)),
       Item(None, Some(1)),
       Item(Some(<<"A", "d", "a">>), Some(2)) >> }

\* answers to GET /accounts: None when the request raises
AccountResponses == {None} \cup {Some(p) : p \in AccountPayloads}

\* answers to GET /products/<id>/ticker: None when the request raises or the
\* ticker has no price
PriceResponses == {None, Some(0), Some(2)}

\* answers to POST /orders: None when the request raises
OrderResponses ==
  { None,
    Some([success |-> FALSE, error |-> "INSUFFICIENT_FUND"]),
    Some([error |-> "UNKNOWN"]),
    Some([success |-> TRUE, order_id |-> "o-1", order_status |-> "FILLED"]) }

Number(n) == [kind |-> "number", value |-> n]

\* a JSON object with all four keys
Obj(action, product, amount, rationale) ==
  [json |-> TRUE,
   data |-> [action |-> action, product_id |-> product,
             amount_usdc |-> amount, rationale |-> rationale]]

\* oracle replies
Replies ==
  { Obj(Some(a), Some(p), Some(Number(n)), Some("r")) :
      a \in {S_buy, S_sell},
      p \in {S_ada, <<"B", "t", "c", "-", "u", "s", "d", "c">>},
      n \in 1..MaxAmount }
  \cup
  { Obj(Some(a), Some(<<"A", "D", "A", "-", "U", "S", "D", "C">>), n, Some("r")) :
      a \in {S_buy, S_sell}, n \in {None, Some(Number(0)), Some(Number(-1))} }
  \cup
  { Obj(Some(S_hold), None, None, Some("r")),
    Obj(Some(<<"H", "o", "l", "d">>), Some(S_ada), Some(Number(1)), None),
    Obj(Some(S_buy), None, Some(Number(1)), Some("r")),
    Obj(Some(S_sell), Some(<<>>), Some(Number(1)), Some("r")),
    Obj(Some(<<"B", "U", "Y">>), Some(S_ada), Some(Number(1)), Some("r")),
    Obj(Some(<<"s", "h", "o", "r", "t">>), Some(S_ada), Some(Number(1)), Some("r")),
    Obj(Some(<<"s", "h", "o", "r", "t">>), Some(S_btc), None, Some("r")),
    Obj(None, Some(S_ada), Some(Number(1)), Some("r")),
    Obj(Some(S_buy), Some(S_ada), Some([kind |-> "string", value |-> "a lot"]), Some("r")),
    [json |-> TRUE, data |-> [rationale |-> Some("r")]],
    [json |-> FALSE] }

\* answers of the oracle endpoint: None when the request raises
OracleResponses == {None} \cup {Some(r) : r \in Replies}

-----------------------------------------------------------------------------
(* The session: TradingAgent.initialize_session and TradingAgent.run *)

NoCalls ==
  [ get_accounts |-> 0, get_product_price |-> 0, place_market_buy |-> 0,
    place_market_sell |-> 0, decide |-> 0, validate |-> 0, accepted |-> 0,
    sleep |-> 0, slept |-> 0 ]

\* the counters after the requests named in queries
RECURSIVE Count(_, _)
Count(c, queries) ==
  IF queries = <<>> THEN c
  ELSE Count([c EXCEPT ![Head(queries)] = @ + 1], Tail(queries))

Init ==
  /\ config \in Configs
  /\ pc = "new"
  /\ now = 0
  /\ ledger = EmptyLedger
  /\ journal = <<>>
  /\ reason = None
  /\ snapshot = None
  /\ decision = None
  /\ product_id = None
  /\ validation = None
  /\ execution = None
  /\ trade_result = None
  /\ raised = None
  /\ calls = NoCalls
  /\ input = None

\* the locals of one loop iteration
locals == <<snapshot, decision, product_id, validation, execution, trade_result>>

\* the exception of a call that raised after the requests in queries: the
\* division by a price of 0 when the ticker answered 0, else the failure
\* of the last request
RaisedBy(queries, price) ==
  IF queries[Len(queries)] = "get_product_price" /\ price = Some(0)
    THEN "ZeroDivisionError"
    ELSE queries[Len(queries)]

\* an exception leaves run()
Crash(exception) ==
  /\ pc' = "crashed"
  /\ raised' = Some(exception)

\* TradingAgent.initialize_session (the metadata is not modelled)
initialize_session ==
  /\ pc = "new"
  /\ journal' = Append(journal, Entry("Session Started", <<"metadata">>))
  /\ now' = 0
  /\ pc' = "evaluate"
  /\ UNCHANGED <<config, input, ledger, reason, locals, raised, calls>>

\* run() before initialize_session
RunUninitialized ==
  /\ pc = "new"
  /\ Crash("RuntimeError: Session not initialized")
  /\ UNCHANGED <<config, input, now, ledger, journal, reason, locals, calls>>

\* top of the loop: the stop conditions
Evaluate ==
  /\ pc = "evaluate"
  /\ LET r == _stop_reason(now, ledger, config.constraints)
     IN  /\ reason' = r
         /\ IF ~IsNone(r)
              THEN /\ journal' = Append(journal, Entry("Session Complete", <<Val(r)>>))
                   /\ pc' = "done"
              ELSE /\ journal' = journal
                   /\ pc' = "snapshot"
  /\ UNCHANGED <<config, input, now, ledger, locals, raised, calls>>

\* snapshot = self._build_market_snapshot()
Snapshot ==
  /\ pc = "snapshot"
  /\ \E resp \in AccountResponses :
       /\ calls' = Count(calls, <<"get_accounts">>)
       /\ IF IsNone(resp)
            THEN /\ Crash("get_accounts")
                 /\ UNCHANGED snapshot
            ELSE /\ snapshot' = Some(_build_market_snapshot(config, get_accounts(Val(resp))))
                 /\ pc' = "decide"
                 /\ UNCHANGED raised
  /\ UNCHANGED <<config, input, now, ledger, journal, reason, decision, product_id,
                 validation, execution, trade_result>>

\* Route that treats a missing product as a hold
Route_skip_as_hold(d) ==
  IF d.action = S_hold \/ IsNone(d.product_id) \/ Val(d.product_id) = <<>> THEN "sleep"
  ELSE "validate"

\* Route without the branch on hold
Route_no_hold(d) ==
  IF IsNone(d.product_id) \/ Val(d.product_id) = <<>> THEN "skip" ELSE "validate"

\* where run() goes with a parsed decision: "sleep" for hold, "skip" when the
\* product is missing, else "validate"
Route(d) ==
  IF d.action = S_hold THEN "sleep"
  ELSE IF IsNone(d.product_id) \/ Val(d.product_id) = <<>> THEN "skip"
  ELSE "validate"

\* decision = self._llm.decide(...), the Decision entry, and the branches on
\* hold and on a missing product; the snapshot is not used after the call and
\* is cleared
Decide ==
  /\ pc = "decide"
  /\ \E resp \in OracleResponses :
       /\ calls' = Count(calls, <<"decide">>)
       /\ IF IsNone(resp)
            THEN /\ Crash("decide")
                 /\ UNCHANGED <<journal, decision, product_id>>
          ELSE IF IsNone(_parse_response(Val(resp)))
            THEN /\ Crash("ValueError")
                 /\ UNCHANGED <<journal, decision, product_id>>
          ELSE LET d == Val(_parse_response(Val(resp)))
                   j == append_decision(journal, d.action, d.rationale)
               IN  /\ decision' = Some(d)
                   /\ UNCHANGED raised
                   /\ IF Route(d) = "sleep"
                        THEN /\ journal' = j
                             /\ pc' = "sleep"
                             /\ UNCHANGED product_id
                      ELSE IF Route(d) = "skip"
                        THEN /\ journal' =
                                  Append(j, Entry("Decision Skipped",
                                    <<"LLM suggested a trade without specifying a product. Action ignored.">>))
                             /\ pc' = "sleep"
                             /\ UNCHANGED product_id
                        ELSE /\ journal' = j
                             /\ product_id' = Some(NormalizeProductId(Val(d.product_id)))
                             /\ pc' = "validate"
  /\ snapshot' = None
  /\ UNCHANGED <<config, input, now, ledger, reason, validation, execution, trade_result>>

\* the answers the exchange gave: those of the requests made
Asked(env, queries) ==
  [ accounts |-> IF InList("get_accounts", queries) THEN env.accounts ELSE None,
    price |-> IF InList("get_product_price", queries) THEN env.price ELSE None ]

\* a rejection that ends the session
AfterValidation_stop(outcome) == IF outcome = "accepted" THEN "execute" ELSE "done"

\* if not self._validate_decision(...): sleep and continue; else execute
AfterValidation(outcome) == IF outcome = "accepted" THEN "execute" ELSE "sleep"

\* self._validate_decision(decision, product_id); validation records the call
Validate ==
  /\ pc = "validate"
  /\ \E accounts \in AccountResponses, price \in PriceResponses :
       LET env == [accounts |-> accounts, price |-> price]
           v == _validate_decision(config, ledger, Val(decision), Val(product_id), env)
       IN  /\ validation' = Some([ decision |-> Val(decision),
                                   product_id |-> Val(product_id),
                                   transaction_count |-> transaction_count(ledger),
                                   env |-> Asked(env, v.queries),
                                   outcome |-> v.outcome,
                                   entries |-> v.entries,
                                   queries |-> v.queries ])
           /\ journal' = journal \o v.entries
           /\ calls' = Count(Count(calls, <<"validate">>), v.queries)
           /\ IF v.outcome = "raised"
                THEN Crash(RaisedBy(v.queries, price))
                ELSE /\ pc' = AfterValidation(v.outcome)
                     /\ UNCHANGED raised
  /\ UNCHANGED <<config, input, now, ledger, reason, snapshot, decision, product_id,
                 execution, trade_result>>

\* trade_result = self._execute_trade(decision, product_id); execution records
\* the call (order is None when no order was sent, else Some(answer)); the
\* record of the validation is not used any more and is cleared
Execute ==
  /\ pc = "execute"
  /\ \E price \in IF Val(decision).action = S_buy THEN {None} ELSE PriceResponses,
        order \in OrderResponses :
       LET x == _execute_trade(Val(decision), Val(product_id),
                               [price |-> price, order |-> order])
       IN  /\ calls' = [Count(calls, x.queries) EXCEPT
                          !.accepted = @ + (IF x.accepted THEN 1 ELSE 0)]
           /\ execution' = Some([ queries |-> x.queries,
                                  price |-> price,
                                  order |-> IF Len(x.queries) > 0 /\ x.queries[Len(x.queries)]
                                                  \in {"place_market_buy", "place_market_sell"}
                                              THEN Some(order) ELSE None,
                                  outcome |-> x.outcome ])
           /\ IF x.outcome = "raised"
                THEN /\ Crash(RaisedBy(x.queries, price))
                     /\ UNCHANGED trade_result
                ELSE /\ trade_result' = x.record
                     /\ pc' = "register"
                     /\ UNCHANGED raised
  /\ validation' = None
  /\ UNCHANGED <<config, input, now, ledger, journal, reason, snapshot, decision, product_id>>

\* no second look at the stop conditions
PostTradeReason_none(elapsed, l, constraints) == None

\* reason = self._stop_reason() right after a trade was registered
PostTradeReason(elapsed, l, constraints) == _stop_reason(elapsed, l, constraints)

\* if trade_result: register, journal, and the stop conditions again
Register ==
  /\ pc = "register"
  /\ IF ~IsNone(trade_result)
       THEN LET l == register_trade(ledger, Val(trade_result))
                j == append_transaction(journal, Val(trade_result))
                r == PostTradeReason(now, l, config.constraints)
            IN  /\ ledger' = l
                /\ reason' = r
                /\ IF ~IsNone(r)
                     THEN /\ journal' = Append(j, Entry("Session Complete", <<Val(r)>>))
                          /\ pc' = "done"
                     ELSE /\ journal' = j
                          /\ pc' = "sleep"
       ELSE /\ pc' = "sleep"
            /\ UNCHANGED <<ledger, reason, journal>>
  /\ UNCHANGED <<config, input, now, locals, raised, calls>>

\* time.sleep(self._config.polling_interval_seconds) and back to the top; the
\* locals of the finished iteration are dead and are cleared
Sleep ==
  /\ pc = "sleep"
  /\ now' = Min(now + config.polling_interval_seconds, config.constraints.max_runtime)
  /\ calls' = [calls EXCEPT !.sleep = @ + 1,
                            !.slept = @ + config.polling_interval_seconds]
  /\ snapshot' = None
  /\ decision' = None
  /\ product_id' = None
  /\ validation' = None
  /\ execution' = None
  /\ trade_result' = None
  /\ pc' = "evaluate"
  /\ UNCHANGED <<config, input, ledger, journal, reason, raised>>

\* time passes while run() waits for the oracle or for an order; the clock
\* is read at the top of the loop and after a trade only, and compared with
\* max_runtime only, so it is kept up to max_runtime
Tick ==
  /\ pc \in {"decide", "execute"}
  /\ now < config.constraints.max_runtime
  /\ now' = now + 1
  /\ UNCHANGED <<config, input, pc, ledger, journal, reason, locals, raised, calls>>

Next ==
  \/ initialize_session
  \/ RunUninitialized
  \/ Evaluate
  \/ Snapshot
  \/ Decide
  \/ Validate
  \/ Execute
  \/ Register
  \/ Sleep
  \/ Tick

Spec == Init /\ [][Next]_vars

\* the step made no exchange or oracle call that failed to return: no
\* exception left run(), or one raised by the agent's own arithmetic
Returns == raised' = None \/ raised' = Some("ZeroDivisionError")

\* the session when every exchange and oracle call returns
NextLive ==
  \/ initialize_session
  \/ Evaluate
  \/ Snapshot /\ Returns
  \/ Decide /\ Returns
  \/ Validate /\ Returns
  \/ Execute /\ Returns
  \/ Register
  \/ Sleep
  \/ Tick

\* run() is sequential code: while a step is possible, one is taken
SpecLive == Init /\ [][NextLive]_vars /\ WF_vars(NextLive)

-----------------------------------------------------------------------------
(* Unit harness: the ledger, the stop conditions and the validator called  *)
(* directly, on any ledger and at any clock reading. A run of the harness  *)
(* registers some trades and then makes one call of _stop_reason or of     *)
(* _validate_decision; neither changes the ledger, so a longer run would   *)
(* call them on the same ledgers.                                          *)

\* trade dicts handed to register_trade; the last has no net_delta_usdc
UnitTrades ==
  { [ order_id |-> "o-1", status |-> "FILLED", product_id |-> S_ada \o S_DashUSDC,
      action |-> S_buy, amount_usdc |-> 1, net_delta_usdc |-> -1 ],
    [ order_id |-> "o-1", status |-> "FILLED", product_id |-> S_ada \o S_DashUSDC,
      action |-> S_sell, amount_usdc |-> 2, net_delta_usdc |-> 2 ],
    [ order_id |-> "o-2", status |-> "unknown" ] }

\* the decisions the parser can return
UnitDecisions ==
  { Val(_parse_response(r)) : r \in {q \in Replies : ~IsNone(_parse_response(q))} }

\* the harness positions from which it makes a call
UnitPcs == {"unit", "unit_registered"}

InitUnit ==
  /\ config \in Configs
  /\ pc = "unit"
  /\ now = 0
  /\ ledger = EmptyLedger
  /\ journal = <<>>
  /\ reason = None
  /\ snapshot = None
  /\ decision = None
  /\ product_id = None
  /\ validation = None
  /\ execution = None
  /\ trade_result = None
  /\ raised = None
  /\ calls = NoCalls
  /\ input = None

\* ledger.register_trade(trade)
RegisterTradeCall ==
  /\ pc \in UnitPcs
  /\ transaction_count(ledger) < MaxLedger
  /\ \E trade \in UnitTrades : ledger' = register_trade(ledger, trade)
  /\ pc' = "unit_registered"
  /\ UNCHANGED <<config, input, now, journal, reason, locals, raised, calls>>

\* agent._stop_reason() at a clock reading
StopReasonCall ==
  /\ pc \in UnitPcs
  /\ \E elapsed \in 0..(config.constraints.max_runtime + 1) :
       /\ now' = elapsed
       /\ reason' = _stop_reason(elapsed, ledger, config.constraints)
  /\ pc' = "unit_stop"
  /\ UNCHANGED <<config, input, ledger, journal, locals, raised, calls>>

\* agent._validate_decision(decision, product_id); validation records the
\* call and all the exchange would have answered
ValidateDecisionCall ==
  /\ pc \in UnitPcs
  /\ \E d \in {x \in UnitDecisions : ~IsNone(x.product_id) /\ Val(x.product_id) # <<>>},
        accounts \in AccountResponses, price \in PriceResponses :
       LET pid == NormalizeProductId(Val(d.product_id))
           env == [accounts |-> accounts, price |-> price]
           v == _validate_decision(config, ledger, d, pid, env)
       IN  /\ decision' = Some(d)
           /\ product_id' = Some(pid)
           /\ validation' = Some([ decision |-> d,
                                   product_id |-> pid,
                                   transaction_count |-> transaction_count(ledger),
                                   env |-> env,
                                   outcome |-> v.outcome,
                                   entries |-> v.entries,
                                   queries |-> v.queries ])
           /\ journal' = journal \o v.entries
  /\ pc' = "unit_validated"
  /\ UNCHANGED <<config, input, now, ledger, reason, snapshot, execution, trade_result,
                 raised, calls>>

\* the accounts of the lists handed to _build_market_snapshot: USDC twice
\* (in two letter cases, with two balances), one asset twice, a forbidden
\* asset, and a second asset that sorts after the first
UnitAccountItems ==
  { [asset |-> S_USDC, available_balance |-> 1],
    [asset |-> <<"u", "s", "d", "c">>, available_balance |-> 2],
    [asset |-> S_ada, available_balance |-> 1],
    [asset |-> <<"A", "d", "a">>, available_balance |-> 2],
    [asset |-> S_btc, available_balance |-> 1],
    [asset |-> <<"e", "t", "h">>, available_balance |-> 1] }

\* the account lists of up to MaxAccounts accounts
UnitAccounts == UNION { [1..k -> UnitAccountItems] : k \in 0..MaxAccounts }

\* the product ids handed to the normalization: a stem and an ending
UnitProductIds ==
  { stem \o ending :
      stem \in { <<"e", "t", "h">>, <<"E", "T", "H">>, <<"E", "t", "h">>, <<"e">>,
                 <<"-">>, <<"e", "t", "h", "-", "u", "s", "d">>, S_DashUSDC \o <<"e">> },
      ending \in { <<>>, S_DashUSDC, <<"-", "u", "s", "d", "c">>, <<"-", "U", "s", "d", "c">>,
                   <<"-", "U", "S", "D">>, <<"U", "S", "D", "C">>, S_DashUSDC \o <<"x">>,
                   S_DashUSDC \o S_DashUSDC } }

\* agent._build_market_snapshot() on an account list
BuildMarketSnapshotCall ==
  /\ pc = "unit"
  /\ \E accounts \in UnitAccounts :
       /\ input' = Some(accounts)
       /\ snapshot' = Some(_build_market_snapshot(config, accounts))
  /\ pc' = "unit_snapshot"
  /\ UNCHANGED <<config, now, ledger, journal, reason, decision, product_id,
                 validation, execution, trade_result, raised, calls>>

\* the normalization of run() on a product id
NormalizeProductIdCall ==
  /\ pc = "unit"
  /\ \E raw \in UnitProductIds :
       /\ input' = Some(raw)
       /\ product_id' = Some(NormalizeProductId(raw))
  /\ pc' = "unit_normalized"
  /\ UNCHANGED <<config, now, ledger, journal, reason, snapshot, decision,
                 validation, execution, trade_result, raised, calls>>

\* llm._parse_response(reply)
ParseResponseCall ==
  /\ pc = "unit"
  /\ \E reply \in Replies :
       /\ input' = Some(reply)
       /\ decision' = _parse_response(reply)
       /\ raised' = IF IsNone(_parse_response(reply)) THEN Some("ValueError") ELSE None
  /\ pc' = "unit_parsed"
  /\ UNCHANGED <<config, now, ledger, journal, reason, snapshot, product_id,
                 validation, execution, trade_result, calls>>

NextUnit ==
  \/ RegisterTradeCall
  \/ StopReasonCall
  \/ ValidateDecisionCall
  \/ BuildMarketSnapshotCall
  \/ NormalizeProductIdCall
  \/ ParseResponseCall

SpecUnit == InitUnit /\ [][NextUnit]_vars

-----------------------------------------------------------------------------
(* Claims *)

\* the sum of the net_delta_usdc values of the records of a history
RECURSIVE SumDeltas(_)
SumDeltas(history) ==
  IF history = <<>> THEN 0
  ELSE SumDeltas(SubSeq(history, 1, Len(history) - 1)) +
       (IF "net_delta_usdc" \in DOMAIN history[Len(history)]
          THEN history[Len(history)].net_delta_usdc ELSE 0)

IsPrefix(a, b) == Len(a) <= Len(b) /\ SubSeq(b, 1, Len(a)) = a

\* C1: after any sequence of register_trade calls from the empty ledger,
\* transaction_count is the length of the history and net_profit_usdc is the
\* sum of the registered net_delta_usdc values; every step keeps the earlier
\* records as they were (the history only grows at its end).
C1_LedgerTotals ==
  /\ [](/\ transaction_count(ledger) = Len(ledger.transactions)
        /\ ledger.net_profit_usdc = SumDeltas(ledger.transactions))
  /\ [][IsPrefix(ledger.transactions, ledger'.transactions)]_vars

\* C1 witness: three trades registered, among them a buy and a sell, with a
\* net profit that is not zero
C1_Witness ==
  /\ pc = "unit_registered"
  /\ Len(ledger.transactions) = 3
  /\ \E i, j \in 1..3 : /\ Get(ledger.transactions[i], "net_delta_usdc", 0) < 0
                        /\ Get(ledger.transactions[j], "net_delta_usdc", 0) > 0
  /\ ledger.net_profit_usdc # 0

\* C2: _stop_reason returns the first condition that holds in the order
\* runtime, transaction cap, profit target, each compared with >=, and no
\* reason when none holds.
C2_StopReasonOrder ==
  pc = "unit_stop" =>
    LET c == config.constraints
        runtime == now >= c.max_runtime
        cap == Len(ledger.transactions) >= c.max_transactions
        profit == ledger.net_profit_usdc >= c.profit_target_usdc
    IN  /\ runtime => reason = Some("Max runtime reached.")
        /\ (~runtime /\ cap) => reason = Some("Max transaction count reached.")
        /\ (~runtime /\ ~cap /\ profit) => reason = Some("Profit target achieved.")
        /\ (~runtime /\ ~cap /\ ~profit) => reason = None

\* C2 witness: the cap and the profit target are both met exactly, the runtime
\* is not, and the cap is the reason
C2_Witness ==
  /\ pc = "unit_stop"
  /\ now < config.constraints.max_runtime
  /\ Len(ledger.transactions) = config.constraints.max_transactions
  /\ ledger.net_profit_usdc = config.constraints.profit_target_usdc
  /\ reason = Some("Max transaction count reached.")

\* the upper-cased forbidden set of a configuration
ForbiddenSet(cfg) ==
  { Upper(cfg.constraints.forbidden_products[i]) :
      i \in 1..Len(cfg.constraints.forbidden_products) }

\* the available balance of the first account of a payload that has an asset
\* and a balance and whose upper-cased asset is symbol; 0 when there is none
HeldBalance(payload, symbol) ==
  LET held == { i \in 1..Len(payload) :
                  /\ payload[i].asset # None
                  /\ payload[i].available # None
                  /\ Upper(Val(payload[i].asset)) = symbol }
  IN  IF held = {} THEN 0
      ELSE Val(payload[CHOOSE i \in held : \A j \in held : i <= j].available)

\* rule k of the validator is violated by the call recorded in V (rules 6
\* and 7 by what the exchange answers; not at all when it does not answer)
Violates(k, V) ==
  LET d == V.decision
      c == config.constraints
      has == d.amount_usdc # None
      amount == Val(d.amount_usdc)
  IN  CASE k = 1 -> Upper(SplitFirst(V.product_id)) \in ForbiddenSet(config)
        [] k = 2 -> V.transaction_count >= c.max_transactions
        [] k = 3 -> d.action # S_buy /\ d.action # S_sell
        [] k = 4 -> ~has \/ amount <= 0
        [] k = 5 -> d.action = S_buy /\ has /\ amount > c.max_purchase_usdc
        [] k = 6 -> /\ d.action = S_buy /\ has
                    /\ V.env.accounts # None
                    /\ amount > HeldBalance(Val(V.env.accounts), S_USDC)
        [] k = 7 -> /\ d.action = S_sell /\ has
                    /\ V.env.accounts # None
                    /\ V.env.price # None
                    /\ Val(V.env.price) > 0
                    /\ amount > Val(V.env.price) *
                                HeldBalance(Val(V.env.accounts), SplitFirst(V.product_id))

Violated(V) == {k \in 1..7 : Violates(k, V)}

\* the rule a rejection entry gives as its reason
RuleOfEntry(e) ==
  CASE e.content[1] = "Product " -> 1
    [] e.content[1] = "Max transaction count reached." -> 2
    [] e.content[1] = "Unsupported action: " -> 3
    [] e.content[1] = "Invalid trade size specified." -> 4
    [] e.content[1] = "Buy size " -> 5
    [] e.content[1] = "Insufficient USDC balance for purchase." -> 6
    [] e.content[1] = "Insufficient " -> 7
    [] OTHER -> 0

\* the exchange requests rule k needs
QueriesFor(k) ==
  IF k <= 5 THEN <<>>
  ELSE IF k = 6 THEN <<"get_accounts">>
  ELSE <<"get_accounts", "get_product_price">>

\* the exchange fails to answer a request the balance rule of V needs
ExchangeFails(V) ==
  \/ V.env.accounts = None
  \/ V.decision.action = S_sell /\ (V.env.price = None \/ V.env.price = Some(0))

\* V was rejected by rule k: one entry, the reason of rule k, and no request
\* beyond those of rule k
RejectedBy(V, k) ==
  /\ V.outcome = "rejected"
  /\ Len(V.entries) = 1
  /\ V.entries[1].heading = "Decision Rejected"
  /\ RuleOfEntry(V.entries[1]) = k
  /\ V.queries = QueriesFor(k)

LeastOf(S) == CHOOSE k \in S : \A j \in S : k <= j

\* C3: _validate_decision applies rules 1..7 in order and the first failing
\* rule wins: a decision violating several rules gets exactly one "Decision
\* Rejected" entry, with the reason of the lowest violated rule, and no
\* exchange request of a later rule is made; a decision violating none is
\* accepted with no entry. (When rules 1..5 pass and the exchange does not
\* answer, the call raises and writes nothing.)
C3_FirstFailingRuleWins ==
  pc = "unit_validated" =>
    LET V == Val(validation)
        early == Violated(V) \cap 1..5
    IN  /\ journal = V.entries
        /\ IF early # {} THEN RejectedBy(V, LeastOf(early))
           ELSE IF ExchangeFails(V) THEN V.outcome = "raised" /\ V.entries = <<>>
           ELSE IF Violated(V) # {} THEN RejectedBy(V, LeastOf(Violated(V)))
           ELSE /\ V.outcome = "accepted"
                /\ V.entries = <<>>
                /\ V.queries = QueriesFor(IF V.decision.action = S_buy THEN 6 ELSE 7)

\* C3 witness: a decision that violates rules 1, 2, 3 and 4 at once, rejected
\* with the reason of rule 1
C3_Witness ==
  /\ pc = "unit_validated"
  /\ {1, 2, 3, 4} \subseteq Violated(Val(validation))
  /\ RejectedBy(Val(validation), 1)

\* C4: no order is placed and no trade is registered for a forbidden asset,
\* whatever the letter case or the suffix of the oracle's product id: the
\* base asset of the product about to be ordered, ordered, or registered in
\* the ledger is never in the upper-cased forbidden set.
C4_NoForbiddenTrade ==
  /\ \A i \in 1..Len(ledger.transactions) :
       Upper(SplitFirst(ledger.transactions[i].product_id)) \notin ForbiddenSet(config)
  /\ (pc \in {"execute", "register"} \/ execution # None) =>
       Upper(SplitFirst(Val(product_id))) \notin ForbiddenSet(config)

\* C4 witness: after a trade was registered, the oracle names a forbidden
\* asset in mixed case with a lower-case suffix, and the decision is rejected
C4_Witness ==
  /\ pc = "sleep"
  /\ Len(ledger.transactions) > 0
  /\ Val(decision).product_id = Some(<<"B", "t", "c", "-", "u", "s", "d", "c">>)
  /\ validation # None
  /\ RejectedBy(Val(validation), 1)

C6_BalanceRules ==
  validation # None =>
    LET V == Val(validation)
        amount == Val(V.decision.amount_usdc)
    IN  (Violated(V) \cap 1..5 = {} /\ V.outcome # "raised") =>
          IF V.decision.action = S_buy
            THEN /\ V.queries = <<"get_accounts">>
                 /\ V.outcome = "rejected" <=>
                      amount > HeldBalance(Val(V.env.accounts), S_USDC)
            ELSE /\ V.queries = <<"get_accounts", "get_product_price">>
                 \* amount / price > balance, for price > 0
                 /\ V.outcome = "rejected" <=>
                      amount > Val(V.env.price) *
                               HeldBalance(Val(V.env.accounts), SplitFirst(V.product_id))

\* C6 witness: a sell that needs more of the base asset than is held was
\* rejected, and a sell that needs exactly the balance held is accepted
C6_Witness ==
  /\ \E i \in 1..Len(journal) :
       journal[i].heading = "Decision Rejected" /\ RuleOfEntry(journal[i]) = 7
  /\ validation # None
  /\ Val(validation).decision.action = S_sell
  /\ Val(validation).outcome = "accepted"
  /\ Val(validation).env.price # None
  /\ Val(Val(validation).decision.amount_usdc) > 0
  /\ Val(Val(validation).decision.amount_usdc) =
       Val(Val(validation).env.price) *
       HeldBalance(Val(Val(validation).env.accounts), SplitFirst(Val(validation).product_id))

\* the requests counted in calls that go to the oracle or to the exchange
Outside(c) ==
  <<c.decide, c.get_accounts, c.get_product_price, c.place_market_buy, c.place_market_sell>>

\* the order requests counted in calls
Orders(c) == <<c.place_market_buy, c.place_market_sell>>

\* C7: when a trade is registered the stop conditions are evaluated again in
\* the same step, before any sleep: if the trade brings net_profit_usdc to
\* profit_target_usdc or above, or the transaction count to max_transactions,
\* the step journals the transaction and then "Session Complete" and ends the
\* session, with no sleep and no oracle or exchange request.
C7_StopAfterTrade ==
  [][ pc = "register" =>
        /\ Len(ledger'.transactions) = Len(ledger.transactions) + 1
        /\ ( \/ ledger'.net_profit_usdc >= config.constraints.profit_target_usdc
             \/ Len(ledger'.transactions) >= config.constraints.max_transactions ) =>
             /\ pc' = "done"
             /\ reason' # None
             /\ Len(journal') = Len(journal) + 2
             /\ journal'[Len(journal') - 1].heading = "Transaction"
             /\ journal'[Len(journal')].heading = "Session Complete"
             /\ calls' = calls
             /\ now' = now ]_vars

\* C7 witness: the session ended right after its first trade, which brought
\* the profit to exactly the target while the transaction cap was not reached
C7_Witness ==
  /\ pc = "done"
  /\ Len(journal) >= 2
  /\ journal[Len(journal) - 1].heading = "Transaction"
  /\ journal[Len(journal)].heading = "Session Complete"
  /\ ledger.net_profit_usdc = config.constraints.profit_target_usdc
  /\ Len(ledger.transactions) < config.constraints.max_transactions
  /\ calls.sleep = 0

\* C8: a cycle whose decision is hold goes from the oracle's answer straight
\* to the sleep, with the ledger unchanged and no validation, exchange or
\* order request; the sleep is one call of polling_interval_seconds and
\* leads to the next evaluation of the stop conditions.
C8_HoldCycle ==
  /\ []( (decision # None /\ Val(decision).action = S_hold) =>
           /\ pc = "sleep"
           /\ validation = None /\ execution = None /\ trade_result = None )
  /\ [][ (pc = "decide" /\ decision' # None /\ Val(decision').action = S_hold) =>
           /\ pc' = "sleep"
           /\ ledger' = ledger
           /\ calls' = [calls EXCEPT !.decide = @ + 1] ]_vars
  /\ [][ (pc = "sleep" /\ decision # None /\ Val(decision).action = S_hold) =>
           /\ pc' = "evaluate"
           /\ ledger' = ledger
           /\ journal' = journal
           /\ calls' = [calls EXCEPT !.sleep = @ + 1,
                                     !.slept = @ + config.polling_interval_seconds] ]_vars

\* C8 witness: the oracle answered "Hold" with a product, after a trade was
\* registered, and the cycle is at its sleep
C8_Witness ==
  /\ pc = "sleep"
  /\ decision # None
  /\ Val(decision).action = S_hold
  /\ Val(decision).product_id # None
  /\ Len(ledger.transactions) > 0

\* C9: when the validator rejects a decision, the step writes one "Decision
\* Rejected" entry with the reason, places no order, leaves the ledger
\* unchanged and goes to the sleep; the sleep is one polling interval and
\* leads back to the evaluation of the stop conditions.
C9_RejectionCycle ==
  /\ [][ (pc = "validate" /\ validation' # None /\ Val(validation').outcome = "rejected") =>
           /\ pc' = "sleep"
           /\ ledger' = ledger
           /\ Len(journal') = Len(journal) + 1
           /\ journal'[Len(journal')].heading = "Decision Rejected"
           /\ RuleOfEntry(journal'[Len(journal')]) \in 1..7
           /\ Orders(calls') = Orders(calls) ]_vars
  /\ [][ (pc = "sleep" /\ validation # None /\ Val(validation).outcome = "rejected") =>
           /\ pc' = "evaluate"
           /\ ledger' = ledger
           /\ journal' = journal
           /\ calls' = [calls EXCEPT !.sleep = @ + 1,
                                     !.slept = @ + config.polling_interval_seconds] ]_vars

\* C9 witness: after a rejection and its sleep the session goes on to a new
\* cycle, with nothing registered
C9_Witness ==
  /\ pc = "snapshot"
  /\ journal[Len(journal)].heading = "Decision Rejected"
  /\ calls.sleep = 1
  /\ calls.validate = 1
  /\ Len(ledger.transactions) = 0

\* the answer to an order request reports no success: the request raised, or
\* the payload has no true success flag
OrderFailed(answer) ==
  \/ answer = None
  \/ "success" \notin DOMAIN Val(answer)
  \/ ~Val(answer).success

\* C10: an order the exchange does not report as successful is never
\* registered: when the order request of _execute_trade fails (transport
\* error, or success flag false or missing), _execute_trade gives no trade
\* record and the ledger is as it was before the attempt.
C10_FailedOrderNotRegistered ==
  /\ []( (execution # None /\ Val(execution).order # None
            /\ OrderFailed(Val(Val(execution).order))) =>
           trade_result = None /\ pc = "crashed" )
  /\ [][ (pc = "execute" /\ execution' # None /\ Val(execution').order # None
            /\ OrderFailed(Val(Val(execution').order))) =>
           /\ trade_result' = None
           /\ ledger' = ledger
           /\ journal' = journal ]_vars

\* C10 witness: after a trade was registered, a sell order came back with
\* success false
C10_Witness ==
  /\ execution # None
  /\ Val(execution).order # None
  /\ Val(Val(execution).order) # None
  /\ "success" \in DOMAIN Val(Val(Val(execution).order))
  /\ ~Val(Val(Val(execution).order)).success
  /\ Val(decision).action = S_sell
  /\ Len(ledger.transactions) > 0

\* C11: every abnormal outcome of a cycle is written to the journal before
\* the session continues or halts: a step of a cycle in which an exception
\* leaves run() (transport failure of the exchange or of the oracle,
\* malformed oracle reply, failed order) or in which the validator rejects
\* the decision appends an entry to the journal.
C11_AbnormalOutcomesJournaled ==
  [][ ( \/ pc # "new" /\ pc # "crashed" /\ pc' = "crashed"
        \/ pc = "validate" /\ validation' # None /\ Val(validation').outcome = "rejected" ) =>
        Len(journal') > Len(journal) ]_vars

\* C11 witness: the first request for the accounts failed, the exception left
\* run(), and the journal holds the "Session Started" entry only
C11_Witness ==
  /\ pc = "crashed"
  /\ raised = Some("get_accounts")
  /\ Len(journal) = 1
  /\ journal[1].heading = "Session Started"

\* the permutations of 1..n
Perms(n) == { f \in [1..n -> 1..n] : \A i, j \in 1..n : f[i] = f[j] => i = j }

\* the list in the order f
Permuted(list, f) == [i \in 1..Len(list) |-> list[f[i]]]

\* C12: the market snapshot does not depend on the order of the accounts:
\* for every account list, also one with several entries for one asset or
\* for USDC, every permutation of it gives the same usdc_balance,
\* candidate_products and open_positions.
C12_SnapshotOrderIndependent ==
  pc = "unit_snapshot" =>
    \A f \in Perms(Len(Val(input))) :
      _build_market_snapshot(config, Permuted(Val(input), f)) = Val(snapshot)

\* C12 witness: two USDC accounts with different balances, of which the
\* snapshot takes the first
C12_Witness ==
  /\ pc = "unit_snapshot"
  /\ Len(Val(input)) = 2
  /\ Upper(Val(input)[1].asset) = S_USDC
  /\ Upper(Val(input)[2].asset) = S_USDC
  /\ Val(input)[1].available_balance # Val(input)[2].available_balance
  /\ Val(snapshot).usdc_balance = Val(input)[1].available_balance

\* a is before b in the order of Python's str comparison
LexLess(a, b) ==
  \E k \in 1..(Len(a) + 1) :
    /\ \A j \in 1..(k - 1) : j <= Len(b) /\ a[j] = b[j]
    /\ \/ k = Len(a) + 1 /\ Len(b) >= k
       \/ k <= Len(a) /\ k <= Len(b) /\ CodePoint[a[k]] < CodePoint[b[k]]

\* the accounts of a list that are neither USDC nor forbidden
KeptAccounts(accounts) ==
  { i \in 1..Len(accounts) :
      /\ Upper(accounts[i].asset) # S_USDC
      /\ Upper(accounts[i].asset) \notin ForbiddenSet(config) }

\* C13: for every account list, candidate_products is the sorted list,
\* without duplicates, of "<ASSET>-USDC" for exactly the accounts whose
\* upper-cased asset is neither USDC nor forbidden; the keys of open_positions
\* are the candidate products and each value is the available balance of the
\* base asset (of its last account, when it has several); usdc_balance is the
\* available balance of the (first) USDC account, or 0 when there is none.
C13_SnapshotContents ==
  pc = "unit_snapshot" =>
    LET accounts == Val(input)
        snap == Val(snapshot)
        c == snap.candidate_products
        products == { Upper(accounts[i].asset) \o S_DashUSDC : i \in KeptAccounts(accounts) }
        usdc == { i \in 1..Len(accounts) : Upper(accounts[i].asset) = S_USDC }
    IN  /\ { c[i] : i \in 1..Len(c) } = products
        /\ Len(c) = Cardinality(products)
        /\ \A i, j \in 1..Len(c) : i < j => LexLess(c[i], c[j])
        /\ DOMAIN snap.open_positions = products
        /\ \A p \in products :
             LET of == { i \in KeptAccounts(accounts) : Upper(accounts[i].asset) \o S_DashUSDC = p }
             IN  snap.open_positions[p] =
                   accounts[CHOOSE i \in of : \A j \in of : j <= i].available_balance
        /\ snap.usdc_balance =
             IF usdc = {} THEN 0
             ELSE accounts[CHOOSE i \in usdc : \A j \in usdc : i <= j].available_balance

\* C13 witness: a list with a forbidden asset, a USDC account and two other
\* assets given in descending order of name
C13_Witness ==
  /\ pc = "unit_snapshot"
  /\ Len(Val(input)) > 2
  /\ \E i \in 1..Len(Val(input)) : Upper(Val(input)[i].asset) \in ForbiddenSet(config)
  /\ Len(Val(snapshot).candidate_products) = 2
  /\ \E i, j \in 1..Len(Val(input)) :
       /\ i < j
       /\ Upper(Val(input)[i].asset) \o S_DashUSDC = Val(snapshot).candidate_products[2]
       /\ Upper(Val(input)[j].asset) \o S_DashUSDC = Val(snapshot).candidate_products[1]

\* s ends in "-USDC"
HasSuffixUSDC(s) ==
  /\ Len(s) >= 5
  /\ \A i \in 1..5 : s[Len(s) - 5 + i] = <<"-", "U", "S", "D", "C">>[i]

\* C14: the normalization upper-cases the oracle's product id and appends
\* "-USDC" only when the upper-cased value does not already end in "-USDC":
\* "eth" becomes "ETH-USDC", "ETH-USDC" is unchanged, every result ends in
\* "-USDC", and normalizing a result returns it unchanged.
C14_Normalization ==
  pc = "unit_normalized" =>
    LET raw == Val(input)
        out == Val(product_id)
    IN  /\ out = IF HasSuffixUSDC(Upper(raw)) THEN Upper(raw)
                 ELSE Upper(raw) \o <<"-", "U", "S", "D", "C">>
        /\ HasSuffixUSDC(out)
        /\ NormalizeProductId(out) = out
        /\ raw = <<"e", "t", "h">> => out = <<"E", "T", "H", "-", "U", "S", "D", "C">>
        /\ raw = <<"E", "T", "H", "-", "U", "S", "D", "C">> => out = raw

\* C14 witness: "eth" has become "ETH-USDC"
C14_Witness ==
  /\ pc = "unit_normalized"
  /\ input = Some(<<"e", "t", "h">>)
  /\ product_id = Some(<<"E", "T", "H", "-", "U", "S", "D", "C">>)

\* a reply that is not JSON, or whose object has no action or a null one
MalformedReply(reply) ==
  \/ ~reply.json
  \/ "action" \notin DOMAIN reply.data
  \/ reply.data.action = None

\* C15: a malformed oracle reply (not JSON, or JSON without an action or
\* with a null action) is an error and never an implicit hold: the parser
\* raises and returns no decision.
C15_MalformedReplyIsError ==
  (pc = "unit_parsed" /\ MalformedReply(Val(input))) =>
    decision = None /\ raised # None

\* C15 witness: a reply whose object has a rationale only was parsed into a
\* hold decision
C15_Witness ==
  /\ pc = "unit_parsed"
  /\ Val(input).json
  /\ DOMAIN Val(input).data = {"rationale"}
  /\ decision # None
  /\ Val(decision).action = S_hold
  /\ raised = None

\* the number of orders submitted
OrderCount(c) == c.place_market_buy + c.place_market_sell

\* an order is submitted only by the step that leaves "execute", one per
\* step; that position is entered only from a validation that asked the
\* exchange for the balances, the validation only from a new oracle decision,
\* and the decision only from a new snapshot; a rejection leads to the sleep
\* and the sleep to the next evaluation of the stop conditions
OneOrderPerCycle ==
  /\ [][ OrderCount(calls') # OrderCount(calls) =>
           /\ pc = "execute" /\ pc' # "execute"
           /\ OrderCount(calls') = OrderCount(calls) + 1 ]_vars
  /\ [][ (pc' = "execute" /\ pc # "execute") =>
           pc = "validate" /\ calls'.get_accounts > calls.get_accounts ]_vars
  /\ [][ (pc' = "validate" /\ pc # "validate") =>
           pc = "decide" /\ calls'.decide = calls.decide + 1 ]_vars
  /\ [][ (pc' = "decide" /\ pc # "decide") =>
           pc = "snapshot" /\ calls'.get_accounts = calls.get_accounts + 1 ]_vars
  /\ [][ (pc = "validate" /\ validation' # None /\ Val(validation').outcome = "rejected") =>
           pc' = "sleep" ]_vars
  /\ [][ pc = "sleep" => pc' = "evaluate" ]_vars

\* C16: there is no automatic retry: at most one order is submitted per
\* cycle, and after a rejected or a failed attempt the session yields to the
\* next poll cycle (the sleep, then the stop conditions, a fresh snapshot,
\* a fresh decision and fresh balances) before any further order.
C16_NoRetryNextCycle ==
  /\ OneOrderPerCycle
  /\ [][ (pc = "execute" /\ execution' # None /\ Val(execution').order # None
            /\ OrderFailed(Val(Val(execution').order))) =>
           pc' = "sleep" ]_vars

\* C16 witness: in the second cycle, after a rejection in the first, an
\* order came back with success false and the session stopped there
C16_Witness ==
  /\ pc = "crashed"
  /\ execution # None
  /\ Val(execution).order # None
  /\ OrderFailed(Val(Val(execution).order))
  /\ calls.sleep = 1
  /\ calls.decide = 2
  /\ OrderCount(calls) = 1
  /\ \E i \in 1..Len(journal) : journal[i].heading = "Decision Rejected"

\* the entry is the "Decision" entry of decision d
IsDecisionEntry(e, d) ==
  /\ e.heading = "Decision"
  /\ Len(e.content) = Len(d.action) + 3
  /\ SubSeq(e.content, 2, Len(d.action) + 1) = d.action
  /\ e.content[Len(e.content)] = d.rationale

\* C17: every decision the oracle returns is journaled, hold included, with
\* its action and rationale, in the step that receives it and before any
\* other entry of the cycle; the journal only grows at its end; and every
\* "Decision Skipped", "Decision Rejected" and "Transaction" entry comes
\* right after the "Decision" entry of its cycle, a "Session Complete" entry
\* after the "Session Started", a "Transaction" or the entries of a finished
\* cycle.
C17_DecisionsJournaledInOrder ==
  /\ [][ (pc = "decide" /\ decision' # None) =>
           /\ Len(journal') > Len(journal)
           /\ IsDecisionEntry(journal'[Len(journal) + 1], Val(decision')) ]_vars
  /\ [][ IsPrefix(journal, journal') ]_vars
  /\ [](\A i \in 1..Len(journal) :
          /\ journal[i].heading \in {"Decision Skipped", "Decision Rejected", "Transaction"} =>
               i > 1 /\ journal[i - 1].heading = "Decision"
          /\ journal[i].heading = "Session Complete" => i = Len(journal) /\ pc = "done"
          /\ journal[i].heading = "Session Started" => i = 1)

\* C17 witness: a hold was journaled in an earlier cycle, and the last cycle
\* wrote its decision, then the transaction, then "Session Complete"
C17_Witness ==
  /\ pc = "done"
  /\ Len(journal) >= 5
  /\ journal[Len(journal) - 2].heading = "Decision"
  /\ journal[Len(journal) - 1].heading = "Transaction"
  /\ journal[Len(journal)].heading = "Session Complete"
  /\ \E i \in 1..Len(journal) :
       /\ journal[i].heading = "Decision"
       /\ SubSeq(journal[i].content, 2, 5) = S_hold

\* a buy or sell decision without a product (None or empty)
TradeWithoutProduct(d) ==
  /\ d.action \in {S_buy, S_sell}
  /\ d.product_id = None \/ d.product_id = Some(<<>>)

\* C18: a buy or sell decision whose product_id is absent is skipped: the
\* step that receives it journals the decision and a "Decision Skipped"
\* entry and goes to the sleep, with no validation, no exchange request and
\* the ledger unchanged; the sleep is one polling interval and leads to the
\* next evaluation of the stop conditions.
C18_SkipCycle ==
  /\ []( (decision # None /\ TradeWithoutProduct(Val(decision))) =>
           /\ pc = "sleep"
           /\ journal[Len(journal)].heading = "Decision Skipped"
           /\ product_id = None /\ validation = None
           /\ execution = None /\ trade_result = None )
  /\ [][ (pc = "decide" /\ decision' # None /\ TradeWithoutProduct(Val(decision'))) =>
           /\ pc' = "sleep"
           /\ ledger' = ledger
           /\ Len(journal') = Len(journal) + 2
           /\ journal'[Len(journal')].heading = "Decision Skipped"
           /\ calls' = [calls EXCEPT !.decide = @ + 1] ]_vars
  /\ [][ (pc = "sleep" /\ decision # None /\ TradeWithoutProduct(Val(decision))) =>
           /\ pc' = "evaluate"
           /\ ledger' = ledger
           /\ journal' = journal
           /\ calls' = [calls EXCEPT !.sleep = @ + 1,
                                     !.slept = @ + config.polling_interval_seconds] ]_vars

\* C18 witness: after a trade was registered, the oracle answered with a sell
\* whose product id is the empty string, and the cycle is at its sleep
C18_Witness ==
  /\ pc = "sleep"
  /\ decision # None
  /\ Val(decision).action = S_sell
  /\ Val(decision).product_id = Some(<<>>)
  /\ Len(ledger.transactions) > 0
  /\ journal[Len(journal)].heading = "Decision Skipped"

\* C19: provided every exchange and oracle call returns and the clock
\* advances from one cycle to the next, run() eventually journals "Session
\* Complete" and terminates, whatever the oracle decides.
C19_SessionTerminates ==
  <>(pc = "done" /\ journal[Len(journal)].heading = "Session Complete")

\* C19 witness: every call returned, the ticker answered a price of 0 for the
\* product of a sell, and the division by the price ended run()
C19_Witness ==
  /\ pc = "crashed"
  /\ raised = Some("ZeroDivisionError")
  /\ Val(decision).action = S_sell
  /\ journal[Len(journal)].heading = "Decision"

\* every session ends: with "Session Complete", or with an exception
SessionEnds == <>(pc \in {"done", "crashed"})

\* C20: with max_transactions >= 0 the ledger never holds more than
\* max_transactions trades: every cycle that gets past the stop conditions
\* has fewer, a trade is registered only by the register step of such a
\* cycle, and that step registers one trade and ends the cycle.
C20_TransactionCap ==
  /\ [](Len(ledger.transactions) <= config.constraints.max_transactions)
  /\ [](pc \in {"snapshot", "decide", "validate", "execute", "register"} =>
          Len(ledger.transactions) < config.constraints.max_transactions)
  /\ [][ ledger' # ledger =>
           /\ pc = "register" /\ pc' \in {"sleep", "done"}
           /\ Len(ledger.transactions) < config.constraints.max_transactions
           /\ Len(ledger'.transactions) = Len(ledger.transactions) + 1 ]_vars

\* C20 witness: the session ended on the transaction cap, reached by the
\* trade of its second cycle
C20_Witness ==
  /\ pc = "done"
  /\ config.constraints.max_transactions > 0
  /\ Len(ledger.transactions) = config.constraints.max_transactions
  /\ reason = Some("Max transaction count reached.")
  /\ calls.sleep = 1

TransactionEntries(j) == Cardinality({ i \in 1..Len(j) : j[i].heading = "Transaction" })

\* C22: ledger and journal stay in step: at the evaluation of the stop
\* conditions and after a normal end, the number of "Transaction" entries,
\* the transaction count of the ledger and the number of orders the
\* exchange accepted are equal; an accepted order without a ledger entry
\* exists only between the placement of the order and its registration.
C22_LedgerJournalInStep ==
  /\ pc \in {"evaluate", "done"} =>
       /\ TransactionEntries(journal) = transaction_count(ledger)
       /\ calls.accepted = transaction_count(ledger)
  /\ TransactionEntries(journal) = transaction_count(ledger)
  /\ calls.accepted # transaction_count(ledger) =>
       /\ pc = "register"
       /\ trade_result # None
       /\ calls.accepted = transaction_count(ledger) + 1

\* C22 witness: two orders were accepted, registered and journaled, and the
\* session ended
C22_Witness ==
  /\ pc = "done"
  /\ calls.accepted = 2
  /\ transaction_count(ledger) = 2
  /\ TransactionEntries(journal) = 2

\* C23: the oracle is consulted only while no stop condition holds: at
\* every call of decide the constraints payload has remaining_transactions
\* = max_transactions - transaction count >= 1 and current_profit_usdc =
\* net_profit_usdc < profit_target_usdc; with max_transactions <= 0 or
\* profit_target_usdc <= 0 the session ends without any oracle or exchange
\* call.
C23_OracleOnlyWhileOpen ==
  /\ [][ calls'.decide # calls.decide =>
           LET payload == _build_constraints_payload(config, ledger)
           IN  /\ pc = "decide"
               /\ payload.remaining_transactions =
                    config.constraints.max_transactions - Len(ledger.transactions)
               /\ payload.remaining_transactions >= 1
               /\ payload.current_profit_usdc = ledger.net_profit_usdc
               /\ payload.current_profit_usdc < config.constraints.profit_target_usdc ]_vars
  /\ []( (config.constraints.max_transactions <= 0
            \/ config.constraints.profit_target_usdc <= 0) =>
           /\ Outside(calls) = Outside(NoCalls)
           /\ pc \in {"new", "evaluate", "done", "crashed"}
           /\ pc = "crashed" => raised = Some("RuntimeError: Session not initialized")
           /\ pc = "done" => journal[Len(journal)].heading = "Session Complete" )

\* C23 witness: the oracle is about to be consulted for the last
\* transaction of the budget, after a first trade booked a loss
C23_Witness ==
  /\ pc = "decide"
  /\ Len(ledger.transactions) = 1
  /\ _build_constraints_payload(config, ledger).remaining_transactions = 1
  /\ _build_constraints_payload(config, ledger).current_profit_usdc < 0

\* C24: inside run() rule 2 of the validator is never the rejection
\* reason: the ledger does not change between the evaluation of the stop
\* conditions at the top of a cycle and the validation of the cycle's
\* decision, so the validator always finds the transaction count below the
\* cap and no "Decision Rejected" entry with the reason "Max transaction
\* count reached." is ever journaled.
C24_CapRuleNeverFires ==
  /\ [](\A i \in 1..Len(journal) :
          journal[i].heading = "Decision Rejected" =>
            journal[i].content # <<"Max transaction count reached.">>)
  /\ [](validation # None =>
          Val(validation).transaction_count < config.constraints.max_transactions)
  /\ [][ (pc \in {"evaluate", "snapshot", "decide", "validate"}) => ledger' = ledger ]_vars

\* C24 witness: with one transaction left in the budget, the validator
\* rejected a decision in run(), for a reason other than the cap
C24_Witness ==
  /\ validation # None
  /\ Val(validation).transaction_count = config.constraints.max_transactions - 1
  /\ Val(validation).transaction_count > 0
  /\ Val(validation).outcome = "rejected"
  /\ journal[Len(journal)].heading = "Decision Rejected"
  /\ journal[Len(journal)].content # <<"Max transaction count reached.">>

====
